---- MODULE Spec2Model ----
(***************************************************************************)
(* Art-Net codec: the Output (ArtDmx) command body, its padded payload and *)
(* its derived big-endian length field (src/src/command/output.rs),        *)
(* together with the envelope, the field macro and the Port-Address that   *)
(* the body is composed from.                                              *)
(*                                                                         *)
(* Bytes are naturals in 0..255, byte strings are sequences.  A Rust      *)
(* Result is a record with a boolean field ok; an Option<u16> is the empty *)
(* sequence (None) or a one-element sequence (Some).                       *)
(***************************************************************************)
EXTENDS Integers, Sequences, FiniteSets, TLC

VARIABLES built, cmd, buf, dgram, parsed, step, origin

vars == <<built, cmd, buf, dgram, parsed, step, origin>>

----------------------------------------------------------------------------
(* Bounds of the model *)

\* payloads of every length 0..MaxData+Over are built and serialized
Over == 2
\* every byte string over PayloadBytes up to this length is a payload
MaxShortLen == 3

----------------------------------------------------------------------------
(* Program constants *)

MaxData == 512
MinAllowed == 2
U16 == 65536
PortAddressMax == 32767
OpOutput == 20480

ARTNET_HEADER == <<65, 114, 116, 45, 78, 101, 116, 0>>
ARTNET_PROTOCOL_VERSION == <<0, 14>>

----------------------------------------------------------------------------
(* Result / Option / integer encodings *)

Ok(v) == [ok |-> TRUE, val |-> v]
Err(e) == [ok |-> FALSE, err |-> e]

None == <<>>
Some(v) == <<v>>

\* byteorder: write_u16::<BigEndian>, write_u16::<LittleEndian>
BE16(n) == <<(n \div 256) % 256, n % 256>>
LE16(n) == <<n % 256, (n \div 256) % 256>>

\* std::io::Cursor over a byte slice; pos is 0-based
Cursor(bytes) == [buf |-> bytes, pos |-> 0]
Remaining(cursor) == Len(cursor.buf) - cursor.pos
Advance(cursor, n) == [cursor EXCEPT !.pos = @ + n]
At(cursor, i) == cursor.buf[cursor.pos + 1 + i]

CursorEof == [kind |-> "CursorEof"]

\* a parse step yields the value and the advanced cursor
Read(v, cursor) == [ok |-> TRUE, val |-> v, cur |-> cursor]

\* a serialize step yields its Result<()> and the buffer it has written to
Wrote(buffer) == [res |-> Ok(<<>>), buffer |-> buffer]
Failed(e, buffer) == [res |-> Err(e), buffer |-> buffer]

----------------------------------------------------------------------------
(* PaddedData *)

PaddedData_len(self) == Len(self)

\* mutant: the odd length is not rounded up
len_rounded_up_NotRounded(self) == Len(self)

len_rounded_up(self) ==
    LET len == Len(self)
    IN  IF len % 2 # 0 THEN len + 1 ELSE len

\* the Rust range 2..512: start inclusive, end exclusive
AllowedSize == [start |-> MinAllowed, end |-> MaxData]
RangeContains(r, x) == r.start <= x /\ x < r.end

MessageSizeInvalid(message) ==
    [kind |-> "MessageSizeInvalid", message |-> message,
     allowed_size |-> AllowedSize]

\* mutant: the payload is cut at the maximum size while parsing
PaddedData_from_cursor_Truncating(cursor) ==
    LET last == IF Len(cursor.buf) - cursor.pos > MaxData
                THEN cursor.pos + MaxData
                ELSE Len(cursor.buf)
    IN  Read(SubSeq(cursor.buf, cursor.pos + 1, last), cursor)

PaddedData_from_cursor(cursor) ==
    Read(SubSeq(cursor.buf, cursor.pos + 1, Len(cursor.buf)),
         cursor)

\* mutant: the upper size check is off by one
PaddedData_into_buffer_OffByOne(self, buffer, context) ==
    LET len == PaddedData_len(self)
    IN  IF len = 0
        THEN Failed(MessageSizeInvalid(<<>>), buffer)
        ELSE IF len > MaxData + 1
        THEN Failed(MessageSizeInvalid(self), buffer)
        ELSE IF len % 2 # 0
        THEN Wrote(buffer \o self \o <<0>>)
        ELSE Wrote(buffer \o self)

\* mutant: the zero byte is appended whatever the parity
PaddedData_into_buffer_AlwaysPads(self, buffer, context) ==
    LET len == PaddedData_len(self)
    IN  IF len = 0
        THEN Failed(MessageSizeInvalid(<<>>), buffer)
        ELSE IF len > MaxData
        THEN Failed(MessageSizeInvalid(self), buffer)
        ELSE Wrote(buffer \o self \o <<0>>)

\* mutant: the zero byte is never appended
PaddedData_into_buffer_NeverPads(self, buffer, context) ==
    LET len == PaddedData_len(self)
    IN  IF len = 0
        THEN Failed(MessageSizeInvalid(<<>>), buffer)
        ELSE IF len > MaxData
        THEN Failed(MessageSizeInvalid(self), buffer)
        ELSE Wrote(buffer \o self)

PaddedData_into_buffer(self, buffer, context) ==
    LET len == PaddedData_len(self)
    IN  IF len = 0
        THEN Failed(MessageSizeInvalid(<<>>), buffer)
        ELSE IF len > MaxData
        THEN Failed(MessageSizeInvalid(self), buffer)
        ELSE IF len % 2 # 0
        THEN Wrote(buffer \o self \o <<0>>)
        ELSE Wrote(buffer \o self)

----------------------------------------------------------------------------
(* BigEndianLength<Output> *)

BigEndianLength_default == None

BigEndianLength_from_cursor(cursor) ==
    IF Remaining(cursor) < 2
    THEN Err(CursorEof)
    ELSE Read(Some(At(cursor, 0) * 256 + At(cursor, 1)), Advance(cursor, 2))

\* mutant: a parsed length is written back instead of being derived
BigEndianLength_into_buffer_Stored(self, buffer, context) ==
    LET len == IF self # None
               THEN self[1]
               ELSE len_rounded_up(context.data) % U16
    IN  Wrote(buffer \o BE16(len))

\* mutant: the length is written in little-endian order
BigEndianLength_into_buffer_LittleEndian(self, buffer, context) ==
    LET len == len_rounded_up(context.data) % U16
    IN  Wrote(buffer \o LE16(len))

BigEndianLength_into_buffer(self, buffer, context) ==
    LET len == len_rounded_up(context.data) % U16
    IN  Wrote(buffer \o BE16(len))

----------------------------------------------------------------------------
(* Scalar fields: u8, [u8; 2], PortAddress *)

u8_from_cursor(cursor) ==
    IF Remaining(cursor) < 1
    THEN Err(CursorEof)
    ELSE Read(At(cursor, 0), Advance(cursor, 1))

u8_into_buffer(self, buffer, context) == Wrote(buffer \o <<self>>)

\* mutant: versions below the current one are rejected
Version_from_cursor_Strict(cursor) ==
    IF Remaining(cursor) < 2
    THEN Err(CursorEof)
    ELSE IF At(cursor, 0) * 256 + At(cursor, 1) < 14
    THEN Err([kind |-> "UnsupportedVersion"])
    ELSE Read(<<At(cursor, 0), At(cursor, 1)>>, Advance(cursor, 2))

Version_from_cursor(cursor) ==
    IF Remaining(cursor) < 2
    THEN Err(CursorEof)
    ELSE Read(<<At(cursor, 0), At(cursor, 1)>>, Advance(cursor, 2))

Version_into_buffer(self, buffer, context) == Wrote(buffer \o self)

InvalidPortAddress(value) == [kind |-> "InvalidPortAddress", value |-> value]

\* mutant: bit 15 is masked away instead of being rejected
PortAddress_try_from_Masking(value) == Ok(value % (PortAddressMax + 1))

PortAddress_try_from(value) ==
    IF value <= PortAddressMax THEN Ok(value) ELSE Err(InvalidPortAddress(value))

PortAddress_from_cursor(cursor) ==
    IF Remaining(cursor) < 2
    THEN Err(CursorEof)
    ELSE LET number == At(cursor, 0) + 256 * At(cursor, 1)
             checked == PortAddress_try_from(number)
         IN  IF checked.ok
             THEN Read(checked.val, Advance(cursor, 2))
             ELSE checked

PortAddress_into_buffer(self, buffer, context) == Wrote(buffer \o LE16(self))

----------------------------------------------------------------------------
(* Output *)

Output_default ==
    [version      |-> ARTNET_PROTOCOL_VERSION,
     sequence     |-> 0,
     physical     |-> 0,
     port_address |-> 1,
     length       |-> BigEndianLength_default,
     data         |-> <<>>]

\* data_structure!: fields are parsed in declared order, first failure wins
Output_from_cursor(cursor) ==
    LET version == Version_from_cursor(cursor) IN
    IF ~version.ok THEN version ELSE
    LET sequence == u8_from_cursor(version.cur) IN
    IF ~sequence.ok THEN sequence ELSE
    LET physical == u8_from_cursor(sequence.cur) IN
    IF ~physical.ok THEN physical ELSE
    LET port_address == PortAddress_from_cursor(physical.cur) IN
    IF ~port_address.ok THEN port_address ELSE
    LET length == BigEndianLength_from_cursor(port_address.cur) IN
    IF ~length.ok THEN length ELSE
    LET data == PaddedData_from_cursor(length.cur) IN
    IF ~data.ok THEN data ELSE
    Ok([version      |-> version.val,
        sequence     |-> sequence.val,
        physical     |-> physical.val,
        port_address |-> port_address.val,
        length       |-> length.val,
        data         |-> data.val])

\* data_structure!: fields are written in declared order with the whole
\* command as context, first failure wins
Output_into_buffer(self, buffer) ==
    LET r1 == Version_into_buffer(self.version, buffer, self) IN
    IF ~r1.res.ok THEN r1 ELSE
    LET r2 == u8_into_buffer(self.sequence, r1.buffer, self) IN
    IF ~r2.res.ok THEN r2 ELSE
    LET r3 == u8_into_buffer(self.physical, r2.buffer, self) IN
    IF ~r3.res.ok THEN r3 ELSE
    LET r4 == PortAddress_into_buffer(self.port_address, r3.buffer, self) IN
    IF ~r4.res.ok THEN r4 ELSE
    LET r5 == BigEndianLength_into_buffer(self.length, r4.buffer, self) IN
    IF ~r5.res.ok THEN r5 ELSE
    PaddedData_into_buffer(self.data, r5.buffer, self)

----------------------------------------------------------------------------
(* ArtCommand: envelope and dispatch *)

ArtCommand_into_buffer(command) ==
    LET r == Output_into_buffer(command, ARTNET_HEADER \o LE16(OpOutput))
    IN  IF r.res.ok THEN Ok(r.buffer) ELSE Err(r.res.err)

ArtCommand_from_buffer(buffer) ==
    IF Len(buffer) < Len(ARTNET_HEADER) + 2
    THEN Err([kind |-> "MessageTooShort"])
    ELSE IF SubSeq(buffer, 1, Len(ARTNET_HEADER)) # ARTNET_HEADER
    THEN Err([kind |-> "InvalidArtnetHeader"])
    ELSE LET opcode == buffer[9] + 256 * buffer[10]
         IN  IF opcode # OpOutput
             THEN Err([kind |-> "OpcodeError"])
             ELSE LET r == Output_from_cursor(
                               Cursor(SubSeq(buffer, 11, Len(buffer))))
                  IN  IF r.ok THEN Ok(r.val) ELSE Err(r.err)

----------------------------------------------------------------------------
(* Inputs *)

PayloadBytes == {0, 255}
FillBytes == {128, 255}
RampBases == {0}

Const(n, v) == [i \in 1..n |-> v]
Ramp(n, b) == [i \in 1..n |-> (b + i - 1) % 256]

ShortPayloads == UNION {[1..n -> PayloadBytes] : n \in 0..MaxShortLen}

LongPayloads ==
    {Const(n, v) : n \in 0..(MaxData + Over), v \in FillBytes}
        \cup {Ramp(n, b) : n \in 0..(MaxData + Over), b \in RampBases}

EdgePayloads == {Const(n, 255) : n \in (MaxData - 1)..(MaxData + Over)}

Versions == {ARTNET_PROTOCOL_VERSION, <<0, 0>>, <<255, 255>>}
SequenceSamples == {0, 255}
PhysicalSamples == {0, 3}
PortAddressSamples == {0, 1, 256, PortAddressMax}
PortLowBytes == {0, 1, 255}
PortHighBytes == {0, 127, 128, 255}
DeclaredLengths == {0, 2, 258, 65535}

\* a datagram as another node could put it on the wire
Datagram(signature, opcode, version, sequence, physical, lo, hi, declared, payload) ==
    signature \o LE16(opcode) \o version \o <<sequence, physical, lo, hi>>
        \o BE16(declared) \o payload

BadSignature == <<65, 114, 116, 45, 78, 101, 116, 1>>

WellFramed ==
    {Datagram(ARTNET_HEADER, OpOutput, v, s, ph, lo, hi, d, p) :
        v \in Versions, s \in SequenceSamples, ph \in PhysicalSamples,
        lo \in PortLowBytes, hi \in PortHighBytes, d \in DeclaredLengths,
        p \in ShortPayloads \cup EdgePayloads}

Reference == Datagram(ARTNET_HEADER, OpOutput, <<0, 0>>, 0, 0, 1, 0, 2, <<255, 255>>)

Malformed ==
    {SubSeq(Reference, 1, k) : k \in 0..(Len(Reference) - 1)}
        \cup {Datagram(BadSignature, OpOutput, <<0, 14>>, 0, 0, 1, 0, 2, <<255, 255>>),
              Datagram(ARTNET_HEADER, OpOutput + 1, <<0, 14>>, 0, 0, 1, 0, 2, <<255, 255>>)}

Datagrams == WellFramed \cup Malformed

----------------------------------------------------------------------------
(* State machine: a caller builds, serializes, sends, receives and parses *)

NoResult == [ok |-> FALSE, err |-> [kind |-> "NotRun"]]

Init ==
    /\ built = Output_default
    /\ cmd = Output_default
    /\ buf = NoResult
    /\ dgram = <<>>
    /\ parsed = NoResult
    /\ step = "idle"
    /\ origin = "none"

\* Output { data: payload.into(), ..Output::default() }
BuildDefault(payload) ==
    /\ step = "idle"
    /\ built' = [Output_default EXCEPT !.data = payload]
    /\ cmd' = built'
    /\ buf' = NoResult
    /\ dgram' = <<>>
    /\ parsed' = NoResult
    /\ step' = "built"
    /\ origin' = "none"

\* Output { version, sequence, physical, port_address, data, ..Output::default() }
BuildCustom(version, sequence, physical, port_address, payload) ==
    /\ step = "idle"
    /\ PortAddress_try_from(port_address).ok
    /\ built' = [version      |-> version,
                 sequence     |-> sequence,
                 physical     |-> physical,
                 port_address |-> PortAddress_try_from(port_address).val,
                 length       |-> BigEndianLength_default,
                 data         |-> payload]
    /\ cmd' = built'
    /\ buf' = NoResult
    /\ dgram' = <<>>
    /\ parsed' = NoResult
    /\ step' = "built"
    /\ origin' = "none"

\* command.into_buffer()
Serialize ==
    /\ step \in {"built", "adopted"}
    /\ buf' = ArtCommand_into_buffer(cmd)
    /\ step' = IF step = "built" THEN "serialized" ELSE "reserialized"
    /\ UNCHANGED <<built, cmd, dgram, parsed, origin>>

\* the serialized buffer is what the peer receives
Send ==
    /\ step = "serialized"
    /\ buf.ok
    /\ dgram' = buf.val
    /\ origin' = "own"
    /\ step' = "received"
    /\ UNCHANGED <<built, cmd, buf, parsed>>

\* a datagram written by another node arrives
Inject(d) ==
    /\ step = "idle"
    /\ dgram' = d
    /\ origin' = "foreign"
    /\ buf' = NoResult
    /\ parsed' = NoResult
    /\ step' = "received"
    /\ UNCHANGED <<built, cmd>>

\* ArtCommand::from_buffer(&dgram)
Parse ==
    /\ step = "received"
    /\ parsed' = ArtCommand_from_buffer(dgram)
    /\ step' = "parsed"
    /\ UNCHANGED <<built, cmd, buf, dgram, origin>>

\* the parsed command becomes the command to send on
Adopt ==
    /\ step = "parsed"
    /\ parsed.ok
    /\ cmd' = parsed.val
    /\ step' = "adopted"
    /\ UNCHANGED <<built, buf, dgram, parsed, origin>>

Next ==
    \/ \E p \in LongPayloads \cup ShortPayloads : BuildDefault(p)
    \/ \E v \in Versions, s \in SequenceSamples, ph \in PhysicalSamples,
          pa \in PortAddressSamples, p \in ShortPayloads :
            BuildCustom(v, s, ph, pa, p)
    \/ Serialize
    \/ Send
    \/ \E d \in Datagrams : Inject(d)
    \/ Parse
    \/ Adopt

Spec == Init /\ [][Next]_vars

----------------------------------------------------------------------------
(* Properties *)

Serialized == step \in {"serialized", "reserialized"}
Parsed == step \in {"parsed", "adopted", "reserialized"}

\* 18 bytes precede the payload on the wire
WirePayload(bytes) == SubSeq(bytes, 19, Len(bytes))
WireLength(bytes) == bytes[17] * 256 + bytes[18]
WirePortAddress(bytes) == bytes[15] + 256 * bytes[16]
RoundedUpToEven(n) == IF n % 2 = 0 THEN n ELSE n + 1

\* an Output datagram that is long enough and carries signature and opcode
Framed(bytes) ==
    /\ Len(bytes) >= 18
    /\ SubSeq(bytes, 1, 10) = <<65, 114, 116, 45, 78, 101, 116, 0, 0, 80>>

\* C1: for every payload of raw length n in 1..512 serialization succeeds
\* and bytes 0x10..0x11 of the packet hold, big-endian, n rounded up to the
\* nearest even number.
C1_LengthFieldRoundedUp ==
    (Serialized /\ Len(cmd.data) >= 1 /\ Len(cmd.data) <= 512)
        => /\ buf.ok
           /\ WireLength(buf.val) = RoundedUpToEven(Len(cmd.data))

C1_Witness ==
    /\ step = "serialized"
    /\ Len(cmd.data) = 511
    /\ buf.ok
    /\ buf.val[17] = 2
    /\ buf.val[18] = 0

\* C2: a payload of raw length 0 or of raw length above 512 makes
\* serialization fail with MessageSizeInvalid carrying the offending payload
\* bytes, and the caller gets the error alone, with no packet bytes.
C2_SizeErrorCarriesPayload ==
    (Serialized /\ (Len(cmd.data) = 0 \/ Len(cmd.data) > 512))
        => /\ ~buf.ok
           /\ DOMAIN buf = {"ok", "err"}
           /\ buf.err.kind = "MessageSizeInvalid"
           /\ buf.err.message = cmd.data

C2_Witness ==
    /\ step = "serialized"
    /\ Len(cmd.data) = 513
    /\ ~buf.ok
    /\ buf.err.kind = "MessageSizeInvalid"
    /\ Len(buf.err.message) = 513

\* C3 as claimed: re-serializing the parse of the wire form of a built
\* command gives the wire form back when the command's payload length is
\* even, and the wire form plus one extra trailing zero byte when it is odd.
C3_Original ==
    (step = "reserialized" /\ origin = "own")
        => /\ buf.ok
           /\ IF Len(built.data) % 2 = 0
              THEN buf.val = dgram
              ELSE buf.val = dgram \o <<0>>

\* C3 amended: re-serializing the parse of the wire form of a built command
\* gives the wire form back exactly, for even and for odd payload lengths;
\* the extra trailing zero byte of an odd payload is in the parsed payload,
\* which is the built payload plus that one zero byte.
C3_RoundTripExact ==
    (step = "reserialized" /\ origin = "own")
        => /\ buf = Ok(dgram)
           /\ cmd.data = IF Len(built.data) % 2 = 0
                         THEN built.data
                         ELSE built.data \o <<0>>

C3_Witness ==
    /\ step = "reserialized"
    /\ origin = "own"
    /\ built.data = <<255, 0, 255>>
    /\ cmd.data = <<255, 0, 255, 0>>
    /\ buf.ok
    /\ buf.val = dgram

\* C4: when serialization succeeds the bytes appended for the payload have
\* even length, start with the raw payload unchanged and in order, and end
\* with exactly one zero byte after an odd raw length and with nothing more
\* after an even one.
C4_PaddingAppendsOnly ==
    (Serialized /\ buf.ok)
        => LET out == WirePayload(buf.val)
               n == Len(cmd.data)
           IN  /\ Len(out) % 2 = 0
               /\ SubSeq(out, 1, n) = cmd.data
               /\ n % 2 = 1 => out = cmd.data \o <<0>>
               /\ n % 2 = 0 => out = cmd.data

C4_Witness ==
    /\ step = "serialized"
    /\ buf.ok
    /\ cmd.data = <<255, 0, 255>>
    /\ WirePayload(buf.val) = <<255, 0, 255, 0>>

\* C5: parsing an Output datagram succeeds with the address as written for
\* every Port-Address 0..32767 and fails with an address-range error for
\* every value with bit 15 set; no such value becomes a valid address.
C5_PortAddressRange ==
    (Parsed /\ origin = "foreign" /\ Framed(dgram))
        => LET value == WirePortAddress(dgram)
           IN  /\ value <= 32767
                    => parsed.ok /\ parsed.val.port_address = value
               /\ value >= 32768
                    => ~parsed.ok /\ parsed.err.kind = "InvalidPortAddress"

C5_Witness ==
    /\ step = "parsed"
    /\ origin = "foreign"
    /\ Framed(dgram)
    /\ WirePortAddress(dgram) = 32768
    /\ ~parsed.ok
    /\ parsed.err.kind = "InvalidPortAddress"

DefaultPrefix == <<65, 114, 116, 45, 78, 101, 116, 0, 0, 80, 0, 14, 0, 0, 1, 0>>

\* C6: a command with default fields and a payload of length 1..512
\* serializes to signature, opcode [0,80], version [0,14], sequence 0,
\* physical 0, port address [1,0], the big-endian padded length and the
\* padded payload, and nothing else; [255] gives [...,0,2,255,0] and 512
\* bytes of 128 give [...,2,0] and the 512 bytes.
C6_DefaultWireForm ==
    (/\ step = "serialized"
     /\ cmd.version = <<0, 14>>
     /\ cmd.sequence = 0
     /\ cmd.physical = 0
     /\ cmd.port_address = 1
     /\ Len(cmd.data) >= 1
     /\ Len(cmd.data) <= 512)
        => LET n == RoundedUpToEven(Len(cmd.data))
               pad == IF Len(cmd.data) % 2 = 1 THEN <<0>> ELSE <<>>
           IN  /\ buf.ok
               /\ buf.val = DefaultPrefix \o <<n \div 256, n % 256>>
                                \o cmd.data \o pad
               /\ cmd.data = <<255>>
                    => buf.val = DefaultPrefix \o <<0, 2, 255, 0>>
               /\ cmd.data = [i \in 1..512 |-> 128]
                    => buf.val = DefaultPrefix \o <<2, 0>>
                                    \o [i \in 1..512 |-> 128]

C6_Witness ==
    /\ step = "serialized"
    /\ cmd.data = <<255>>
    /\ buf.ok
    /\ buf.val = <<65, 114, 116, 45, 78, 101, 116, 0, 0, 80, 0, 14, 0, 0,
                   1, 0, 0, 2, 255, 0>>

WithVersion(bytes, version) ==
    [i \in 1..Len(bytes) |->
        IF i = 11 THEN version[1] ELSE IF i = 12 THEN version[2] ELSE bytes[i]]

\* C7: a datagram that parses with the current protocol version parses
\* with every other version value too; the parsed version is the two wire
\* bytes and all other fields are what the current version would give.
C7_AnyVersionAccepted ==
    (/\ Parsed
     /\ origin = "foreign"
     /\ Len(dgram) >= 12
     /\ ArtCommand_from_buffer(WithVersion(dgram, <<0, 14>>)).ok)
        => /\ parsed.ok
           /\ parsed.val.version = <<dgram[11], dgram[12]>>
           /\ [parsed.val EXCEPT !.version = <<0, 14>>]
                = ArtCommand_from_buffer(WithVersion(dgram, <<0, 14>>)).val

C7_Witness ==
    /\ step = "parsed"
    /\ dgram = <<65, 114, 116, 45, 78, 101, 116, 0, 0, 80, 0, 0, 0, 0,
                 1, 0, 0, 2, 255, 255>>
    /\ parsed.ok
    /\ parsed.val = [version |-> <<0, 0>>, sequence |-> 0, physical |-> 0,
                     port_address |-> 1, length |-> <<2>>,
                     data |-> <<255, 255>>]

\* C8: the allowed size range carried by the size error contains both 2
\* and 512, for the empty payload and for the oversized payload alike.
C8_AllowedRangeInclusive ==
    (Serialized /\ ~buf.ok /\ buf.err.kind = "MessageSizeInvalid")
        => /\ RangeContains(buf.err.allowed_size, 2)
           /\ RangeContains(buf.err.allowed_size, 512)

StoredLengths == {None} \cup {Some(d) : d \in DeclaredLengths}

\* C9: the stored length never reaches the wire: a command serializes to
\* the same result whatever its length field holds, and the length written
\* is the number of payload bytes written after it.
C9_LengthAlwaysDerived ==
    Serialized
        => /\ \A l \in StoredLengths :
                ArtCommand_into_buffer([cmd EXCEPT !.length = l]) = buf
           /\ buf.ok => WireLength(buf.val) = Len(WirePayload(buf.val))

C9_Witness ==
    /\ step = "reserialized"
    /\ cmd.length = Some(258)
    /\ cmd.data = <<255>>
    /\ buf.ok
    /\ WireLength(buf.val) = 2
    /\ WirePayload(buf.val) = <<255, 0>>

\* C10: parsing stores the 16-bit big-endian wire value as the length
\* without comparing it to the payload and takes every byte after the
\* length field as the payload, so empty, odd, oversized and mis-declared
\* payloads all parse.
C10_PermissiveParse ==
    (Parsed /\ origin = "foreign" /\ Framed(dgram)
            /\ WirePortAddress(dgram) <= 32767)
        => /\ parsed.ok
           /\ parsed.val.length = Some(WireLength(dgram))
           /\ parsed.val.data = WirePayload(dgram)

C10_Witness ==
    /\ step = "parsed"
    /\ origin = "foreign"
    /\ parsed.ok
    /\ parsed.val.length = Some(2)
    /\ Len(parsed.val.data) = 513

====
